---- MODULE Spec2Model ----
(***************************************************************************)
(* The in-memory coordination layer of the QOJ submit bridge               *)
(* (src/server.py): the connection registry (ConnectionManager) and the    *)
(* pending-request table (pending_results), driven by the websocket,       *)
(* submit, report and result handlers.                                     *)
(* The command line client (src/submit.py) appears as the poll loop of      *)
(* wait_submission_result and the line main prints.                        *)
(*                                                                         *)
(* The server runs on one asyncio event loop: a handler runs atomically    *)
(* from one suspension point (an await that really yields) to the next.    *)
(* Each action below is one such run.  asyncio.Lock is never held across   *)
(* a suspension (connect awaits accept() before taking it, disconnect      *)
(* awaits nothing inside it), so acquiring it never yields and the         *)
(* critical sections are part of the enclosing run.                        *)
(***************************************************************************)
EXTENDS Naturals, Sequences, FiniteSets

\* Bounds of the model.
MaxPeers == 2
MaxSubmits == 2
MaxQueries == 2
MaxReports == 2

\* Websocket objects, submit requests and result queries, numbered in their
\* order of arrival.
WS == 1..MaxPeers
Subs == 1..MaxSubmits
Queries == 1..MaxQueries

\* Request ids: the values of uuid4().hex, numbered in the order in which
\* create_request_id first returns them; one more than the submits, so that
\* the last id is never handed out.
Ids == 1..(MaxSubmits + 1)

\* The payload {"sid", "surl", "stime"} of the i-th report: its three fields
\* differ from each other and from every other report's.
Payload(i) == [sid |-> 10 * i + 1, surl |-> 10 * i + 2, stime |-> 10 * i + 3]
NoPayload == [sid |-> 0, surl |-> 0, stime |-> 0]

\* pending_results.get(request_id) is None
NoFut == 0

VARIABLES
    active,           \* manager.active
    ws,               \* position of websocket_endpoint for each websocket
    pending_results,  \* request id -> future (NoFut when the key is absent)
    futs,             \* the futures made by register_pending, one per submit
    sub,              \* the submit_code requests
    query,            \* the submission_result requests
    reports           \* history: the submission_report calls so far, in order

vars == <<active, ws, pending_results, futs, sub, query, reports>>

\* asyncio.get_event_loop().create_future()
NewFuture == [state |-> "pending", result |-> NoPayload]
NoFuture == [state |-> "none", result |-> NoPayload]

\* Future.done(): a result was set or the future was cancelled.
FutDone(fut) == fut.state \in {"done", "cancelled"}

\* No response sent yet.
NoResponse == [status |-> "none"]

\* No send in flight.
NoWs == 0

\* A submit_code request and the broadcast it runs.  list(self.active) is
\* kept as the set it enumerates: its order is arbitrary, and is drawn as the
\* loop goes, one websocket at a time.  sends counts the send_json calls
\* started on each websocket, current is the websocket of the send in flight.
IdleSub == [pc |-> "idle", request_id |-> 0, snapshot |-> {}, sends |-> [w \in WS |-> 0],
            current |-> NoWs, dead |-> {}, response |-> NoResponse]

\* A submission_result request.  seen is history, taken when the request
\* arrives: whether its id was registered, whether an earlier query asked for
\* it, the payloads FirstPayload gives for it then, and the state of the
\* future the table held for it ("none" when it held no entry).
NoSeen == [registered |-> FALSE, queried |-> FALSE, reported |-> NoPayload, late |-> NoPayload,
           fut_state |-> "none"]
IdleQuery == [pc |-> "idle", request_id |-> 0, fut |-> NoFut, response |-> NoResponse,
              seen |-> NoSeen]

Init ==
    /\ active = {}
    /\ ws = [w \in WS |-> "new"]
    /\ pending_results = [r \in Ids |-> NoFut]
    /\ futs = [s \in Subs |-> NoFuture]
    /\ sub = [s \in Subs |-> IdleSub]
    /\ query = [q \in Queries |-> IdleQuery]
    /\ reports = <<>>

----------------------------------------------------------------------------
\* Connection registry

\* websocket_endpoint up to receive_text(): accept() returned and connect
\* added the websocket under the lock.  (The run before it, up to accept(),
\* touches nothing shared.)
WsConnect(w) ==
    /\ ws[w] = "new"
    /\ \A v \in WS : v < w => ws[v] # "new"
    /\ active' = active \cup {w}
    /\ ws' = [ws EXCEPT ![w] = "open"]
    /\ UNCHANGED <<pending_results, futs, sub, query, reports>>

\* ConnectionManager.disconnect: set.discard under the lock.
Discard(act, w) == act \ {w}

\* disconnect written with set.remove: an absent websocket raises KeyError.
RemoveRaises(act, w) == w \notin act

\* set.discard raises nothing, whether the websocket is in the set or not.
DiscardRaises(act, w) == FALSE

\* receive_text() raised WebSocketDisconnect: the handler calls disconnect.
WsDisconnect(w) ==
    /\ ws[w] = "open"
    /\ active' = Discard(active, w)
    /\ ws' = [ws EXCEPT ![w] = IF DiscardRaises(active, w) THEN "raised" ELSE "closed"]
    /\ UNCHANGED <<pending_results, futs, sub, query, reports>>

\* The peer of an open websocket stops reading for good: from then on a
\* send_json on the websocket stays suspended, it neither returns nor raises.
WsStall(w) ==
    /\ ws[w] = "open"
    /\ ws' = [ws EXCEPT ![w] = "stalled"]
    /\ UNCHANGED <<active, pending_results, futs, sub, query, reports>>

\* The websockets of the snapshot the loop has not reached yet.
Unsent(b) == {w \in b.snapshot : b.sends[w] = 0}

\* await ws.send_json(message) is called, and suspends.
StartSend(b, w) == [b EXCEPT !.current = w, !.sends[w] = @ + 1]

\* broadcast without its except clause: the send's exception leaves it.
ExceptException_Propagates(b, w) == [b EXCEPT !.pc = "raised"]

\* The except clause of broadcast: the failing websocket is remembered and
\* the loop goes on.
ExceptException(b, w) == [b EXCEPT !.dead = @ \cup {w}]

\* One turn of the send loop: the send in flight returned (ok) or raised;
\* then the send to nxt starts, or the loop is over (nxt = NoWs).
AfterSend(b, ok, nxt) ==
    LET b1 == IF ok THEN b ELSE ExceptException(b, b.current)
    IN  IF b1.pc = "raised" THEN b1
        ELSE IF nxt = NoWs THEN [b1 EXCEPT !.pc = "evict", !.current = NoWs]
        ELSE StartSend(b1, nxt)

\* broadcast without its second loop: the dead websockets stay registered.
Evict_Nothing(act, dead) == act

\* for ws in dead: await self.disconnect(ws)
Evict(act, dead) == act \ dead

\* The response of submit_code, built after broadcast returned.
SubmitResponse(act, b) ==
    [status |-> "queued", sent_to_clients |-> Cardinality(act), request_id |-> b.request_id]

\* The end of broadcast and of submit_code, in one run: the evictions and the
\* response.
BroadcastReturn(s, b) ==
    /\ active' = Evict(active, b.dead)
    /\ sub' = [sub EXCEPT ![s] =
            IF \E w \in b.dead : DiscardRaises(active, w)
            THEN [b EXCEPT !.pc = "raised"]
            ELSE [b EXCEPT !.pc = "done",
                           !.response = SubmitResponse(Evict(active, b.dead), b)]]

----------------------------------------------------------------------------
\* Pending request table and submission relay

\* The ids register_pending has been called with so far.
Registered == {sub[s].request_id : s \in {t \in Subs : sub[t].pc # "idle"}}

\* submit_code broadcasting with no entry stored under the id first.
register_pending_NotYet(table, r, f) == table

\* register_pending: a new future is stored under the id, whatever was there.
register_pending(table, r, f) == [table EXCEPT ![r] = f]

\* submit_code with request id r, from file.read() returning up to the first
\* send of broadcast (or to the end when nobody is connected): the entry is
\* registered and the snapshot taken.  (The run before it, up to file.read(),
\* only draws the id.)
SubmitCode(s, r) ==
    /\ sub[s].pc = "idle"
    /\ \A t \in Subs : t < s => sub[t].pc # "idle"
    /\ futs' = [futs EXCEPT ![s] = NewFuture]
    /\ pending_results' = register_pending(pending_results, r, s)
    /\ LET b == [sub[s] EXCEPT !.request_id = r, !.snapshot = active]
       IN  IF active = {}
           THEN BroadcastReturn(s, b)
           ELSE /\ \E w \in active : sub' = [sub EXCEPT ![s] = StartSend([b EXCEPT !.pc = "send"], w)]
                /\ UNCHANGED active
    /\ UNCHANGED <<ws, query, reports>>

\* create_request_id returns a value it has not returned before.
Submit(s) == SubmitCode(s, Cardinality(Registered) + 1)

\* uuid4 repeats a value.
SubmitCollide(s) == \E r \in Registered : SubmitCode(s, r)

\* The send in flight completes, by returning (ok) or by raising.
BroadcastSend(s, ok) ==
    /\ sub[s].pc = "send"
    /\ ws[sub[s].current] # "stalled"
    /\ IF Unsent(sub[s]) = {}
       THEN LET b == AfterSend(sub[s], ok, NoWs)
            IN  IF b.pc = "evict"
                THEN BroadcastReturn(s, b)
                ELSE sub' = [sub EXCEPT ![s] = b] /\ UNCHANGED active
       ELSE /\ \E w \in Unsent(sub[s]) : sub' = [sub EXCEPT ![s] = AfterSend(@, ok, w)]
            /\ UNCHANGED active
    /\ UNCHANGED <<ws, pending_results, futs, query, reports>>

SendReturns(s) == BroadcastSend(s, TRUE)
SendRaises(s) == BroadcastSend(s, FALSE)

----------------------------------------------------------------------------
\* Report and result endpoints

\* pending_results.pop(request_id, None): the table afterwards.
PopPending(table, r) == [table EXCEPT ![r] = NoFut]

\* pop written without its default: an absent key raises KeyError.
PopRaises_NoDefault(table, r) == table[r] = NoFut

\* pop(request_id, None) raises nothing, whether the key is present or not.
PopRaises(table, r) == FALSE

\* if fut and not fut.done(): fut.set_result(payload)
SetResult(fut, p) == IF FutDone(fut) THEN fut ELSE [state |-> "done", result |-> p]

\* A result query for r has returned pending.
TimedOut(r) ==
    \E q \in Queries : query[q].request_id = r /\ query[q].response = [status |-> "pending"]

\* The payload of the first report for r that arrived when r was registered
\* (with lateOnly: and after a result query for r had timed out).
FirstPayload(r, lateOnly) ==
    LET S == {i \in 1..Len(reports) :
                /\ reports[i].request_id = r
                /\ reports[i].registered
                /\ lateOnly => reports[i].after_timeout}
    IN  IF S = {} THEN NoPayload
        ELSE reports[CHOOSE i \in S : \A j \in S : i <= j].payload

\* Some report for r has arrived.
Reported(r) == \E i \in 1..Len(reports) : reports[i].request_id = r

\* The response of submission_report: {"status": "ok"} once resolve_pending
\* has returned, an error response when it raised.
ReportResponse(raised) == IF raised THEN [status |-> "error"] ELSE [status |-> "ok"]

\* submission_report: resolve_pending, then {"status": "ok"}.  The history
\* keeps, with each call, where every result query stood when it arrived.
Report(r) ==
    /\ Len(reports) < MaxReports
    /\ LET f == pending_results[r]
           p == Payload(Len(reports) + 1)
       IN  /\ pending_results' = PopPending(pending_results, r)
           /\ futs' = IF f = NoFut THEN futs ELSE [futs EXCEPT ![f] = SetResult(@, p)]
    /\ reports' = Append(reports, [request_id |-> r, payload |-> Payload(Len(reports) + 1),
                                   registered |-> r \in Registered,
                                   after_timeout |-> TimedOut(r),
                                   pcs |-> [q \in Queries |-> query[q].pc],
                                   response |-> ReportResponse(PopRaises(pending_results, r))])
    /\ UNCHANGED <<active, ws, sub, query>>

\* return {"status": "done", **result}
DoneResponse(result) ==
    [status |-> "done", sid |-> result.sid, surl |-> result.surl, stime |-> result.stime]

\* submission_result up to its first suspension: the lookup, and either the
\* unknown response or the wait on the future.
QueryStart(q, r) ==
    /\ query[q].pc = "idle"
    /\ \A t \in Queries : t < q => query[t].pc # "idle"
    /\ LET f == pending_results[r]
           seen == [registered |-> r \in Registered,
                    queried |-> \E t \in Queries : query[t].pc # "idle" /\ query[t].request_id = r,
                    reported |-> FirstPayload(r, FALSE),
                    late |-> FirstPayload(r, TRUE),
                    fut_state |-> IF f = NoFut THEN "none" ELSE futs[f].state]
       IN  query' = [query EXCEPT ![q] =
                IF f = NoFut
                THEN [pc |-> "returned", request_id |-> r, fut |-> f,
                      response |-> [status |-> "unknown"], seen |-> seen]
                ELSE [pc |-> "waiting", request_id |-> r, fut |-> f,
                      response |-> NoResponse, seen |-> seen]]
    /\ UNCHANGED <<active, ws, pending_results, futs, sub, reports>>

\* asyncio.wait_for on a future that is done: its result is returned, or the
\* CancelledError of a cancelled future is raised, which except
\* asyncio.TimeoutError does not catch.
WaitForDone(qr, fut) ==
    IF fut.state = "done"
    THEN [qr EXCEPT !.pc = "returned", !.response = DoneResponse(fut.result)]
    ELSE [qr EXCEPT !.pc = "raised"]

QueryWake(q) ==
    /\ query[q].pc = "waiting"
    /\ FutDone(futs[query[q].fut])
    /\ query' = [query EXCEPT ![q] = WaitForDone(@, futs[query[q].fut])]
    /\ UNCHANGED <<active, ws, pending_results, futs, sub, reports>>

\* asyncio.wait_for when the timeout elapses first: it cancels the future it
\* was given and raises TimeoutError.
WaitForCancel(fut) == [fut EXCEPT !.state = "cancelled"]

QueryTimeout(q) ==
    /\ query[q].pc = "waiting"
    /\ ~FutDone(futs[query[q].fut])
    /\ futs' = [futs EXCEPT ![query[q].fut] = WaitForCancel(@)]
    /\ query' = [query EXCEPT ![q] = [@ EXCEPT !.pc = "returned",
                                               !.response = [status |-> "pending"]]]
    /\ UNCHANGED <<active, ws, pending_results, sub, reports>>

----------------------------------------------------------------------------
Next ==
    \/ \E w \in WS : WsConnect(w)
    \/ \E w \in WS : WsDisconnect(w)
    \/ \E s \in Subs : Submit(s)
    \/ \E s \in Subs : SendReturns(s)
    \/ \E s \in Subs : SendRaises(s)
    \/ \E r \in Ids : Report(r)
    \/ \E q \in Queries, r \in Ids : QueryStart(q, r)
    \/ \E q \in Queries : QueryWake(q)
    \/ \E q \in Queries : QueryTimeout(q)

Spec == Init /\ [][Next]_vars

\* The connection registry and the submission relay alone: the report and
\* result handlers read and write neither active, ws nor sub.
NextRegistry ==
    \/ \E w \in WS : WsConnect(w)
    \/ \E w \in WS : WsDisconnect(w)
    \/ \E s \in Subs : Submit(s)
    \/ \E s \in Subs : SendReturns(s)
    \/ \E s \in Subs : SendRaises(s)

SpecRegistry == Init /\ [][NextRegistry]_vars

\* The pending request table alone, with no websocket ever connected: the
\* websocket handler and the sends read and write neither pending_results,
\* futs nor query.
NextTable ==
    \/ \E s \in Subs : Submit(s)
    \/ \E r \in Ids : Report(r)
    \/ \E q \in Queries, r \in Ids : QueryStart(q, r)
    \/ \E q \in Queries : QueryWake(q)
    \/ \E q \in Queries : QueryTimeout(q)

SpecTable == Init /\ [][NextTable]_vars

\* The pending request table when uuid4 may repeat a value.
NextCollide == NextTable \/ \E s \in Subs : SubmitCollide(s)

SpecCollide == Init /\ [][NextCollide]_vars

\* The submission relay with the peers' reports: registry, broadcasts and
\* report handler, with no result query.
NextRelay == NextRegistry \/ \E r \in Ids : Report(r)

SpecRelay == Init /\ [][NextRelay]_vars

\* The registry and the broadcasts when peers may stop reading.  A send to a
\* peer that reads does complete: the event loop resumes the broadcast once
\* the transport has written the frame or failed.
NextStall == NextRegistry \/ \E w \in WS : WsStall(w)

SpecStall ==
    Init /\ [][NextStall]_vars
         /\ \A s \in Subs : WF_vars(SendReturns(s) \/ SendRaises(s))

\* A result query has ended, by returning a response or by raising.
Ended(q) == query[q].pc \in {"returned", "raised"}

----------------------------------------------------------------------------
\* The command line client (src/submit.py)

\* wait_submission_result after a poll: the loop sleeps and goes on unless
\* the response was done (return) or unknown (break).  A poll whose handler
\* raised comes back as a response other than 200, or as no response.
CliContinues(qr) == qr.pc = "raised" \/ qr.response = [status |-> "pending"]

\* One turn of the loop of wait_submission_result: the GET on
\* /submission-result/{request_id}.  The first poll follows the submit
\* response that gave the request id; each later one follows a poll after
\* which the loop went on.  The budget of total_timeout seconds is the number
\* of polls the loop can make, MaxQueries.
CliPoll(q) ==
    IF q = 1
    THEN \E s \in Subs : sub[s].pc = "done" /\ QueryStart(q, sub[s].response.request_id)
    ELSE /\ Ended(q - 1)
         /\ CliContinues(query[q - 1])
         /\ QueryStart(q, query[q - 1].request_id)

\* The loop is over: a poll returned done or unknown, or the budget is
\* exhausted.
CliOver ==
    \/ \E q \in Queries : Ended(q) /\ ~CliContinues(query[q])
    \/ \A q \in Queries : Ended(q)

\* The tuple (sid, stime, surl) of a payload; ("", "", "") for NoPayload.
CliTuple(p) == <<p.sid, p.stime, p.surl>>

\* What wait_submission_result returns once the loop is over: the fields of
\* the done response, ("", "", "") after a break or an exhausted budget.
CliResult ==
    IF \E q \in Queries : query[q].response.status = "done"
    THEN CliTuple(query[CHOOSE q \in Queries : query[q].response.status = "done"].response)
    ELSE CliTuple(NoPayload)

\* main: "Submission received" is printed when sid, stime and surl are all
\* non-empty, "Submission queued. Result not received." otherwise.
CliPrintsReceived == \A k \in 1..3 : CliResult[k] # CliTuple(NoPayload)[k]

\* The client against the pending request table: a submit, the polls of
\* wait_submission_result for its id, and the reports.
NextCli ==
    \/ \E s \in Subs : Submit(s)
    \/ \E r \in Ids : Report(r)
    \/ \E q \in Queries : CliPoll(q)
    \/ \E q \in Queries : QueryWake(q)
    \/ \E q \in Queries : QueryTimeout(q)

SpecCli == Init /\ [][NextCli]_vars

----------------------------------------------------------------------------
\* Claims

\* C1: a result query issued after a report that itself arrived after a
\* timed-out query for the same registered id returns done with the
\* sid/surl/stime of that report.
C1_ResolutionOutlivesTimeout ==
    \A q \in Queries :
        (Ended(q) /\ query[q].seen.late # NoPayload)
            => (query[q].pc = "returned" /\ query[q].response = DoneResponse(query[q].seen.late))

\* C2: after a result query for a registered id has returned pending, and as
\* long as no report for the id has arrived, the entry is still in
\* pending_results and its future is unresolved: not done, not cancelled.
C2_TimeoutLeavesEntry ==
    \A q \in Queries :
        (query[q].response = [status |-> "pending"] /\ ~Reported(query[q].request_id))
            => /\ pending_results[query[q].request_id] = query[q].fut
               /\ futs[query[q].fut].state = "pending"

\* C3: the first result query for a registered id, issued after the report
\* for it, returns done with exactly the report's sid, surl and stime.
C3_QueryAfterReportIsDone ==
    \A q \in Queries :
        (Ended(q) /\ query[q].seen.registered /\ ~query[q].seen.queried
                  /\ query[q].seen.reported # NoPayload)
            => (query[q].pc = "returned" /\ query[q].response = DoneResponse(query[q].seen.reported))

\* C4: a result query returns unknown exactly when its request id had not
\* been registered by any submit when the query was made.
C4_UnknownMeansNeverRegistered ==
    \A q \in Queries :
        Ended(q) => ((query[q].response = [status |-> "unknown"]) <=> ~query[q].seen.registered)

\* C5: every result query for a registered id that ends before any report
\* for the id has arrived returns pending: not unknown, not done, and it does
\* not end with an exception.
C5_UnreportedIsPending ==
    \A q \in Queries :
        (Ended(q) /\ query[q].seen.registered /\ ~Reported(query[q].request_id))
            => (query[q].pc = "returned" /\ query[q].response = [status |-> "pending"])

\* C6: sent_to_clients in the submit response is the size of the snapshot
\* the broadcast took when it started.
C6_SentToClientsIsSnapshotSize ==
    \A s \in Subs :
        sub[s].pc = "done" => sub[s].response.sent_to_clients = Cardinality(sub[s].snapshot)

\* C7: broadcast sends exactly once to each websocket of the snapshot it took
\* at its start and to no other, whichever sends fail and whatever connects
\* or disconnects meanwhile, and no send failure leaves broadcast: a
\* submit_code never ends by raising.
C7_BroadcastAttemptsEveryPeer ==
    \A s \in Subs :
        /\ sub[s].pc # "raised"
        /\ \A w \in WS : sub[s].sends[w] <= 1 /\ (sub[s].sends[w] = 1 => w \in sub[s].snapshot)
        /\ sub[s].pc = "done" => \A w \in sub[s].snapshot : sub[s].sends[w] = 1

\* A broadcast over two websockets has completed with one send failed and the
\* other not, while a websocket of the snapshot had disconnected.
C7_Witness ==
    \E s \in Subs :
        /\ sub[s].pc = "done"
        /\ Cardinality(sub[s].snapshot) = 2
        /\ Cardinality(sub[s].dead) = 1
        /\ \E w \in sub[s].snapshot : ws[w] = "closed"

\* C8: once a broadcast has completed, no websocket whose send failed in it is
\* in the registry; and a websocket whose handler has not disconnected it is
\* missing from the registry only if its send failed in a completed
\* broadcast: broadcast removes the failed websockets and no other.
C8_BroadcastEvictsExactlyFailed ==
    /\ \A s \in Subs : sub[s].pc = "done" => sub[s].dead \cap active = {}
    /\ \A w \in WS :
        (ws[w] = "open" /\ w \notin active)
            => \E s \in Subs : sub[s].pc = "done" /\ w \in sub[s].dead

\* A completed broadcast over two websockets evicted the one whose send
\* failed and left the other, still connected, in the registry.
C8_Witness ==
    \E s \in Subs :
        /\ sub[s].pc = "done"
        /\ \E v, w \in sub[s].snapshot :
            /\ v \in sub[s].dead /\ v \notin active /\ ws[v] = "open"
            /\ w \notin sub[s].dead /\ w \in active

\* C9: registering a request id that is present in the table leaves the
\* existing entry and its future in place.
C9_RegisterKeepsExistingEntry ==
    [][\A s \in Subs :
        (sub[s].pc = "idle" /\ sub'[s].pc # "idle"
                            /\ pending_results[sub'[s].request_id] # NoFut)
            => pending_results'[sub'[s].request_id] = pending_results[sub'[s].request_id]]_vars

\* C10: once two reports have arrived for a registered request id, its future
\* is resolved with the payload of the first, and the entry is gone.
C10_FirstPayloadWins ==
    \A r \in Ids :
        (\E i, j \in 1..Len(reports) :
            /\ i < j
            /\ reports[i].request_id = r /\ reports[i].registered
            /\ reports[j].request_id = r)
        => /\ pending_results[r] = NoFut
           /\ \A s \in Subs :
                (sub[s].pc # "idle" /\ sub[s].request_id = r)
                    => futs[s] = [state |-> "done", result |-> FirstPayload(r, FALSE)]

\* The j-th report found no entry under its id: the id had never been
\* registered, or an earlier report had removed the entry.
NoEntryAt(j) ==
    \/ ~reports[j].registered
    \/ \E i \in 1..(j - 1) : reports[i].request_id = reports[j].request_id /\ reports[i].registered

C12_EntriesLeaveAtResolution ==
    [][/\ \A r \in Ids :
            pending_results[r] # NoFut => futs[pending_results[r]].state # "done"
       /\ \A r \in Ids :
            (pending_results[r] # NoFut /\ pending_results'[r] = NoFut)
                => /\ Len(reports') = Len(reports) + 1
                   /\ reports'[Len(reports')].request_id = r
                   /\ futs'[pending_results[r]] =
                        [state |-> "done", result |-> reports'[Len(reports')].payload]]_vars

\* C13, as stated: in every step that starts a send of the message carrying
\* request id r to a peer, pending_results holds an entry for r.
C13_EntryPresentAtEverySend ==
    [][\A s \in Subs : \A w \in WS :
        sub'[s].sends[w] > sub[s].sends[w] => pending_results'[sub'[s].request_id] # NoFut]_vars

\* C13, amended: once the message carrying request id r has been sent to
\* some peer, r has been registered: the table holds the entry made for it,
\* unless a report for r has already removed it; so the first report for r
\* finds the entry.  And r is the request_id of the submit response.
C13_RegisteredBeforeSent ==
    \A s \in Subs :
        /\ (\E w \in WS : sub[s].sends[w] > 0)
            => /\ futs[s].state # "none"
               /\ \/ pending_results[sub[s].request_id] = s
                  \/ \E i \in 1..Len(reports) :
                        reports[i].request_id = sub[s].request_id /\ reports[i].registered
        /\ sub[s].pc = "done" => sub[s].response.request_id = sub[s].request_id

\* While a broadcast over two peers is still sending, a report for its
\* request id has found the entry and resolved its future.
C13_Witness ==
    \E s \in Subs :
        /\ sub[s].pc = "send"
        /\ Cardinality(sub[s].snapshot) = 2
        /\ pending_results[sub[s].request_id] = NoFut
        /\ futs[s].state = "done"
        /\ futs[s].result = FirstPayload(sub[s].request_id, FALSE)

\* The i-th report is the first one for its request id that arrived when the
\* id was registered.
FirstReport(i) ==
    /\ reports[i].registered
    /\ reports[i].payload = FirstPayload(reports[i].request_id, FALSE)

\* C14: a result query that was waiting on a registered id when the first
\* report for the id arrived returns done with that report's sid, surl and
\* stime.
C14_WaitingQueryGetsReport ==
    \A i \in 1..Len(reports) : \A q \in Queries :
        (/\ FirstReport(i)
         /\ reports[i].pcs[q] = "waiting"
         /\ query[q].request_id = reports[i].request_id
         /\ Ended(q))
            => /\ query[q].pc = "returned"
               /\ query[q].response = DoneResponse(reports[i].payload)

\* C15: a broadcast that has started sending eventually has attempted every
\* peer of its snapshot and submit_code has returned its queued response,
\* even when the send to one peer never completes.
C15_StalledPeerDoesNotBlock ==
    \A s \in Subs :
        (sub[s].pc = "send")
            ~> (/\ sub[s].pc = "done"
                /\ sub[s].response.status = "queued"
                /\ \A w \in sub[s].snapshot : sub[s].sends[w] = 1)

\* C16: disconnecting a websocket that is no longer registered is a no-op.
\* The handler's disconnect and a broadcast's eviction of the same websocket
\* run in either order without raising; afterwards the websocket is not in
\* the registry and every other member is as it was; and disconnecting twice
\* leaves what disconnecting once leaves.
C16_DisconnectAbsentIsNoOp ==
    [][/\ \A w \in WS :
            /\ (ws[w] = "open" /\ ws'[w] # "open")
                => (ws'[w] = "closed" /\ active' = active \ {w})
            /\ ws'[w] = "closed" => w \notin active'
            /\ Discard(Discard(active, w), w) = Discard(active, w)
       /\ \A s \in Subs :
            (sub[s].pc # sub'[s].pc /\ sub'[s].pc # "send")
                => /\ sub'[s].pc = "done"
                   /\ active' = active \ sub'[s].dead]_vars

\* A websocket was both disconnected by its handler and evicted by a
\* completed broadcast, and another websocket is still registered.
C16_Witness ==
    \E s \in Subs : \E v, w \in WS :
        /\ sub[s].pc = "done"
        /\ w \in sub[s].dead /\ ws[w] = "closed" /\ w \notin active
        /\ v # w /\ v \in active

\* C17: a result query that started waiting on an unresolved future ends by
\* returning pending (its own timeout) or done with the first report's
\* payload, whatever other queries for the same id do: it never ends with an
\* error or a cancellation caused by another query's timeout.
C17_ConcurrentQueriesIndependent ==
    \A q \in Queries :
        (Ended(q) /\ query[q].seen.fut_state = "pending")
            => /\ query[q].pc = "returned"
               /\ \/ query[q].response = [status |-> "pending"]
                  \/ query[q].response = DoneResponse(FirstPayload(query[q].request_id, FALSE))

\* The loop of wait_submission_result was still running when the i-th report
\* arrived: its first poll had begun, no poll had returned done or unknown,
\* and the budget was not exhausted.
CliRunningAt(i) ==
    /\ reports[i].pcs[1] # "idle"
    /\ \A q \in Queries :
        reports[i].pcs[q] \in {"returned", "raised"} => CliContinues(query[q])
    /\ \E q \in Queries : reports[i].pcs[q] \notin {"returned", "raised"}

\* C18: when the first report for the request id of the client's submit
\* arrives while the loop of wait_submission_result is running (during a
\* waiting poll, after a poll timed out on the server, or between two polls),
\* wait_submission_result returns that report's (sid, stime, surl) and main
\* prints the received submission.
C18_CliReceivesReport ==
    \A i \in 1..Len(reports) :
        (/\ FirstReport(i)
         /\ reports[i].request_id = query[1].request_id
         /\ CliRunningAt(i)
         /\ CliOver)
            => /\ CliResult = CliTuple(reports[i].payload)
               /\ CliPrintsReceived

====
